---- MODULE Spec2Model ----
(***************************************************************************)
(* Model of NTLMRawUnHide.py: the raw signature scan of searchCaptureFile, *)
(* the Type 2 / Type 3 pairing, hash formatting, the output file and the   *)
(* follow mode that re-invokes the scan on a growing input file.           *)
(*                                                                         *)
(* Bytes are integers 0..255, byte strings are sequences of bytes, text is *)
(* a sequence of Unicode code points.  Offsets are 0-based as in the code. *)
(***************************************************************************)
EXTENDS Integers, Sequences, FiniteSets, TLC

VARIABLES
    argv,              \* the command line main is called with
    file,              \* content of the input file (infile)
    outfile,           \* configured output path: "" when none
    verbose, follow, quiet,
    pc,                \* position of the program
    pass,              \* number of the running searchCaptureFile invocation
    start,             \* offset argument of the running invocation
    offset,            \* scan position (parameter and loop variable)
    server_challenge,  \* pending challenge, None when absent
    readbuff,          \* buffer scanned by the running pass
    last_byte,         \* length seen by the first read of the running pass
    stdout,            \* lines written to standard output
    outfile_content,   \* text of the output file
    error,             \* exception that ended the program, "" when none
    occ,               \* history: offsets processed by the running pass
    processed,         \* history: <<pass, offset>> of every processed occurrence
    challenge_src,     \* history: offset of the Type 2 that set the challenge
    hashes,            \* history: one entry per printed hash record
    layout             \* description of how the input file was built

vars == <<argv, file, outfile, verbose, follow, quiet, pc, pass, start, offset,
          server_challenge, readbuff, last_byte, stdout, outfile_content,
          error, occ, processed, challenge_src, hashes, layout>>

----------------------------------------------------------------------------
(* Bounds of the model *)

MaxLead == 2        \* messages before the last message of the input file
MaxOcc == 5         \* printing loop iterations followed at one offset
MaxAppends == 2     \* chunks the writer appends in follow mode
MaxPass == 3        \* passes followed in follow mode

----------------------------------------------------------------------------
(* Byte-string primitives of the Python runtime *)

Min(S) == CHOOSE x \in S : \A y \in S : x <= y

\* Python's adjustment of a slice index against a length n.
SliceIndex(i, n) ==
    IF i < 0 THEN (IF i + n < 0 THEN 0 ELSE i + n)
    ELSE IF i > n THEN n ELSE i

\* buf[a:b]
Slice(buf, a, b) ==
    LET lo == SliceIndex(a, Len(buf))
        hi == SliceIndex(b, Len(buf))
    IN  IF lo >= hi THEN <<>> ELSE SubSeq(buf, lo + 1, hi)

\* buf.find(sub, from, to): lowest index of sub inside buf[from:to], or -1
Find(buf, sub, from, to) ==
    LET lo == SliceIndex(from, Len(buf))
        hi == SliceIndex(to, Len(buf))
        m  == Len(sub)
        at == {i \in lo..(hi - m) :
                  /\ buf[i + 1] = sub[1]
                  /\ SubSeq(buf, i + 1, i + m) = sub}
    IN  IF at = {} THEN -1 ELSE Min(at)

\* int.from_bytes(byte_string, 'little') of at most 4 bytes.  A value of
\* 2^31 or more lies outside the integers of TLC, which reports it as an
\* overflow; no field of the input files of the model is that large.
decode_int(byte_string) ==
    LET n == Len(byte_string)
        b(i) == IF i <= n THEN byte_string[i] ELSE 0
    IN  b(1) + 256 * b(2) + 65536 * b(3) + 16777216 * b(4)

IsCont(b) == b >= 128 /\ b <= 191

\* Length of the well-formed UTF-8 sequence that starts at bs[i], 0 when
\* there is none
Utf8Len(bs, i) ==
    LET b1 == bs[i]
        n  == Len(bs) - i + 1
    IN  IF b1 <= 127 THEN 1
        ELSE IF b1 >= 194 /\ b1 <= 223
            THEN (IF n >= 2 /\ IsCont(bs[i + 1]) THEN 2 ELSE 0)
        ELSE IF b1 >= 224 /\ b1 <= 239
            THEN (IF /\ n >= 3
                     /\ IsCont(bs[i + 1])
                     /\ IsCont(bs[i + 2])
                     /\ (b1 = 224 => bs[i + 1] >= 160)
                     /\ (b1 = 237 => bs[i + 1] <= 159)
                  THEN 3 ELSE 0)
        ELSE IF b1 >= 240 /\ b1 <= 244
            THEN (IF /\ n >= 4
                     /\ IsCont(bs[i + 1])
                     /\ IsCont(bs[i + 2])
                     /\ IsCont(bs[i + 3])
                     /\ (b1 = 240 => bs[i + 1] >= 144)
                     /\ (b1 = 244 => bs[i + 1] <= 143)
                  THEN 4 ELSE 0)
        ELSE 0

\* Code point of the well-formed UTF-8 sequence of length k at bs[i]
Utf8CodePoint(bs, i, k) ==
    IF k = 1 THEN bs[i]
    ELSE IF k = 2 THEN (bs[i] - 192) * 64 + (bs[i + 1] - 128)
    ELSE IF k = 3 THEN (bs[i] - 224) * 4096 + (bs[i + 1] - 128) * 64
                          + (bs[i + 2] - 128)
    ELSE (bs[i] - 240) * 262144 + (bs[i + 1] - 128) * 4096
           + (bs[i + 2] - 128) * 64 + (bs[i + 3] - 128)

\* byte_string.decode('UTF-8'): ok is FALSE when UnicodeDecodeError is raised.
\* A byte string is well formed exactly when every byte that is not a
\* continuation byte starts a well-formed sequence and every continuation
\* byte belongs to the sequence started by the nearest such byte before it.
Utf8Decode(bs) ==
    LET n == Len(bs)
        starts == SelectSeq([i \in 1..n |-> i], LAMBDA i : ~IsCont(bs[i]))
        covered(i) ==
            \E d \in 1..3 :
                /\ i - d >= 1
                /\ ~IsCont(bs[i - d])
                /\ \A e \in 1..(d - 1) : IsCont(bs[i - e])
                /\ Utf8Len(bs, i - d) > d
        ok == \A i \in 1..n :
                  IF IsCont(bs[i]) THEN covered(i) ELSE Utf8Len(bs, i) # 0
    IN  [ok   |-> ok,
         text |-> IF ok
                  THEN [j \in 1..Len(starts) |->
                           Utf8CodePoint(bs, starts[j], Utf8Len(bs, starts[j]))]
                  ELSE <<>>]

\* str.replace('\x00', '')
StripNul(text) == SelectSeq(text, LAMBDA c : c # 0)

decode_string(byte_string) ==
    LET d == Utf8Decode(byte_string)
    IN  [ok |-> d.ok, text |-> StripNul(d.text)]

HexDigit(n) == IF n < 10 THEN 48 + n ELSE 87 + n

\* bytes.hex(): two lowercase hexadecimal digits per byte, high nibble first
Hex(bs) ==
    [i \in 1..(2 * Len(bs)) |->
        IF i % 2 = 1 THEN HexDigit(bs[(i + 1) \div 2] \div 16)
        ELSE HexDigit(bs[i \div 2] % 16)]

----------------------------------------------------------------------------
(* Constants of searchCaptureFile *)

None == <<-1>>

ntlmssp_sig == <<78, 84, 76, 77, 83, 83, 80, 0>>
ntlmssp_type_1 == ntlmssp_sig \o <<1, 0, 0, 0>>
ntlmssp_type_2 == ntlmssp_sig \o <<2, 0, 0, 0>>
ntlmssp_type_3 == ntlmssp_sig \o <<3, 0, 0, 0>>

Colon == 58
Backslash == 92

----------------------------------------------------------------------------
(* Input files: NTLMSSP messages laid out as the scan expects them *)

\* n as w little-endian bytes
RECURSIVE LE(_, _)
LE(n, w) == IF w = 0 THEN <<>> ELSE <<n % 256>> \o LE(n \div 256, w - 1)

Fill(b, n) == [i \in 1..n |-> b]

\* length (2), maximum length (2), offset (4)
Descriptor(len, off) == LE(len, 2) \o LE(len, 2) \o LE(off, 4)

Type1Msg == ntlmssp_type_1 \o Fill(0, 4)

\* the server challenge is at +24
Type2Msg(challenge) == ntlmssp_type_2 \o Fill(0, 12) \o challenge

\* descriptors: NTLM response +20, domain +28, username +36, workstation +44;
\* the payload starts at +52
Type3Msg(dom, user, ws, resp) ==
    ntlmssp_type_3
        \o Fill(0, 8)
        \o Descriptor(Len(resp), 52 + Len(dom) + Len(user) + Len(ws))
        \o Descriptor(Len(dom), 52)
        \o Descriptor(Len(user), 52 + Len(dom))
        \o Descriptor(Len(ws), 52 + Len(dom) + Len(user))
        \o dom \o user \o ws \o resp

ChallengeA == <<1, 2, 3, 4, 5, 6, 7, 8>>
ChallengeB == <<17, 34, 51, 68, 85, 102, 119, 136>>
Resp18 == Fill(170, 16) \o Fill(187, 2)
Resp5 == Fill(171, 5)

\* kind: 1, 2, 3 message types; 0 an occurrence of no recognised type; -1 filler
Piece(name) ==
    CASE name = "T1"      -> [kind |-> 1, bytes |-> Type1Msg]
      [] name = "T2A"     -> [kind |-> 2, bytes |-> Type2Msg(ChallengeA)]
      [] name = "T2B"     -> [kind |-> 2, bytes |-> Type2Msg(ChallengeB)]
      [] name = "T2head"  -> [kind |-> 2, bytes |-> ntlmssp_type_2]
      [] name = "T3"      -> [kind |-> 3, bytes |->
                                Type3Msg(<<68, 0>>, <<117, 0>>, <<119, 0>>, Resp18)]
      [] name = "T3nodom" -> [kind |-> 3, bytes |->
                                Type3Msg(<<>>, <<117, 0>>, <<119, 0>>, Resp18)]
      [] name = "T3null"  -> [kind |-> 3, bytes |->
                                Type3Msg(<<68, 0>>, <<117, 0>>, <<119, 0>>, <<>>)]
      [] name = "T3short" -> [kind |-> 3, bytes |->
                                Type3Msg(<<68, 0>>, <<117, 0>>, <<119, 0>>, Resp5)]
      [] name = "T3text"  -> [kind |-> 3, bytes |->
                                Type3Msg(<<68, 0>>, <<233, 0>>, <<119, 0>>, Resp18)]
      [] name = "T3nul"   -> [kind |-> 3, bytes |->
                                Type3Msg(<<0, 0>>, <<117, 0>>, <<119, 0>>, Resp18)]
      [] name = "Unk"     -> [kind |-> 0, bytes |-> ntlmssp_sig \o <<4, 0, 0, 0>>]
      [] name = "Tail"    -> [kind |-> 0, bytes |-> ntlmssp_sig \o <<3, 0>>]
      [] name = "Pad"     -> [kind |-> -1, bytes |-> Fill(204, 9)]

PieceNames == {"T1", "T2A", "T2B", "T2head", "T3", "T3nodom", "T3null",
               "T3short", "T3text", "T3nul", "Unk", "Tail", "Pad"}

\* pieces that may stand before the last piece of an input file
LeadNames == {"T1", "T2A", "T2B", "T2head", "T3", "T3null", "Unk"}

Prefixes == {0, 3}

\* bytes missing at the end of a file that ends inside a Type 3 message
Cuts == {0, 2, 30}

RECURSIVE Concat(_)
Concat(names) ==
    IF names = <<>> THEN <<>>
    ELSE Piece(Head(names)).bytes \o Concat(Tail(names))

\* offset at which piece i of names starts, after a prefix of p filler bytes
PieceStart(p, names, i) == p + Len(Concat(SubSeq(names, 1, i - 1)))

BuildFile(p, names, cut) ==
    LET whole == Fill(204, p) \o Concat(names)
    IN  SubSeq(whole, 1, IF cut > Len(whole) THEN 0 ELSE Len(whole) - cut)

\* up to n lead pieces, then at most one piece of any kind
NameSeqs(n) ==
    LET leads == UNION {[1..k -> LeadNames] : k \in 0..n}
    IN  leads \cup {Append(l, x) : l \in leads, x \in PieceNames}

CutsFor(names) ==
    IF names # <<>> /\ Piece(names[Len(names)]).kind = 3 THEN Cuts ELSE {0}

----------------------------------------------------------------------------
(* Output *)

Line(kind, id, text) == [kind |-> kind, id |-> id, text |-> text]
Blank == Line("blank", "", <<>>)

\* print(...) of each of lines
Write(out, lines) == out \o lines

\* the file content after open(output, "a"), write(outstr + "\n"), close()
writeOutfile(content, outstr) == content \o outstr \o <<10>>

----------------------------------------------------------------------------
(* One iteration of the scan loop of searchCaptureFile *)

\* "increment file offset past occurance of ntlm_sig unless start of file"
Advance(o) == IF o # 0 THEN o + Len(ntlmssp_sig) ELSE o

NextOccurrence(buf, o) == Find(buf, ntlmssp_sig, Advance(o), Len(buf))

\* readbuff.find(type_signature, offset, offset + len(type_signature)) > -1
IsType(buf, o, sig) == Find(buf, sig, o, o + Len(sig)) > -1

\* the length/offset pair at message offset d and the bytes it names
Field(buf, o, d) ==
    LET len == decode_int(Slice(buf, o + d, o + d + 2))
        off == decode_int(Slice(buf, o + d + 2 + 2, o + d + 2 + 2 + 4))
    IN  [length |-> len, offset |-> off,
         bytes  |-> Slice(buf, o + off, o + off + len)]

\* the fields of the message at o as the Type 3 branch reads them
Type3Fields(buf, o) ==
    LET ntlm == Field(buf, o, 20)
    IN  [domain      |-> Field(buf, o, 28),
         username    |-> Field(buf, o, 36),
         workstation |-> Field(buf, o, 44),
         ntlm        |-> ntlm,
         ntproofstr  |-> Slice(buf, o + ntlm.offset, o + ntlm.offset + 16),
         ntlmv2_response |->
             Slice(buf, o + ntlm.offset + 16, o + ntlm.offset + ntlm.length)]

\* decode_string of the three text fields
Type3Text(m) ==
    [domain      |-> decode_string(m.domain.bytes),
     username    |-> decode_string(m.username.bytes),
     workstation |-> decode_string(m.workstation.bytes)]

HashTail(m, sc) ==
    <<Colon>> \o Hex(sc) \o <<Colon>> \o Hex(m.ntproofstr)
              \o <<Colon>> \o Hex(m.ntlmv2_response)

\* hash_out of the branch taken when domain_length == 0
HashNoDomain(m, t, sc) ==
    t.username.text \o <<Colon, Colon>> \o t.workstation.text \o HashTail(m, sc)

\* hash_out of the branch taken otherwise
HashWithDomain(m, t, sc) ==
    t.domain.text \o <<Backslash>> \o HashNoDomain(m, t, sc)

\* "if server_challenge != None"
ChallengePending(sc) == sc # None

\* the NULL-session test left out
NullSession_Never(ntlm_length) == FALSE

\* "if ntlm_length == 0"
NullSession(ntlm_length) == ntlm_length = 0

\* the test for an absent domain left out
NoDomain_Never(domain_length) == FALSE

\* "elif domain_length == 0"
NoDomain(domain_length) == domain_length = 0

\* the reset left out
Reset_Kept(sc) == sc

\* "Reset variable": server_challenge = None
Reset(sc) == None

Result(sc, src, out, content, err, rec) ==
    [server_challenge |-> sc, challenge_src |-> src, stdout |-> out,
     outfile_content |-> content, error |-> err, hashes |-> rec]

OffsetNote(o) == IF verbose THEN <<o>> ELSE <<>>

FieldLines(id, f, text) ==
    <<Line("diag", id, text)>>
        \o (IF verbose
            THEN <<Line("diag", id \o " length", <<f.length>>),
                   Line("diag", id \o " offset", <<f.offset>>), Blank>>
            ELSE <<>>)

NtlmLines(m) ==
    (IF verbose
     THEN <<Line("diag", "NTLM length", <<m.ntlm.length>>),
            Line("diag", "NTLM offset", <<m.ntlm.offset>>),
            Line("diag", "NTProofStr", Hex(m.ntproofstr)),
            Line("diag", "NTLMv2 Response", Hex(m.ntlmv2_response))>>
     ELSE <<>>) \o <<Blank>>

\* Type 1 branch
Type1(o, out) ==
    IF quiet THEN out
    ELSE Write(out, <<Line("diag", "type1", OffsetNote(o)), Blank>>)

\* the challenge taken one byte short
Type2_Short(buf, o, out) ==
    [server_challenge |-> Slice(buf, o + 24, o + 31),
     stdout |-> IF quiet THEN out
                ELSE Write(out, <<Line("diag", "type2", OffsetNote(o)),
                                  Line("diag", "challenge",
                                       Hex(Slice(buf, o + 24, o + 31))),
                                  Blank>>)]

\* Type 2 branch: the challenge becomes readbuff[offset+24 : offset+32]
Type2(buf, o, out) ==
    [server_challenge |-> Slice(buf, o + 24, o + 32),
     stdout |-> IF quiet THEN out
                ELSE Write(out, <<Line("diag", "type2", OffsetNote(o)),
                                  Line("diag", "challenge",
                                       Hex(Slice(buf, o + 24, o + 32))),
                                  Blank>>)]

\* Type 3 branch, part one: report the fields unless quiet.
\* A field that is not UTF-8 raises UnicodeDecodeError at its print.
Type3Report(o, m, t, out) ==
    LET l0 == <<Line("diag", "type3", OffsetNote(o))>>
        l1 == l0 \o FieldLines("Domain", m.domain, t.domain.text)
        l2 == l1 \o FieldLines("Username", m.username, t.username.text)
        l3 == l2 \o FieldLines("Workstation", m.workstation, t.workstation.text)
    IN  IF quiet THEN [stdout |-> out, error |-> ""]
        ELSE IF ~t.domain.ok
            THEN [stdout |-> Write(out, l0), error |-> "UnicodeDecodeError"]
        ELSE IF ~t.username.ok
            THEN [stdout |-> Write(out, l1), error |-> "UnicodeDecodeError"]
        ELSE IF ~t.workstation.ok
            THEN [stdout |-> Write(out, l2), error |-> "UnicodeDecodeError"]
        ELSE [stdout |-> Write(out, l3 \o NtlmLines(m)), error |-> ""]

HashRecord(o, src, sc, line) ==
    [pass |-> pass, t3 |-> o, t2 |-> src, challenge |-> sc, line |-> line]

\* Type 3 branch, part two: "Prepare NTLMv2 Hash for output"
Type3Hash(o, m, t, sc, src, out, content) ==
    LET out1 == IF quiet THEN out
                ELSE Write(out, <<Line("diag", "recovered", <<>>)>>)
    IN  IF ~ChallengePending(sc)
        THEN Result(sc, src,
                    IF quiet THEN out
                    ELSE Write(out, <<Line("diag", "no challenge", <<>>), Blank>>),
                    content, "", <<>>)
        ELSE IF NullSession(m.ntlm.length)
        THEN Result(Reset(sc), -1,
                    Write(out1, (IF quiet THEN <<>>
                                 ELSE <<Line("diag", "null session", <<>>)>>)
                                \o <<Blank>>),
                    content, "", <<>>)
        ELSE IF NoDomain(m.domain.length)
        THEN IF ~(t.username.ok /\ t.workstation.ok)
             THEN Result(sc, src, out1, content, "UnicodeDecodeError", <<>>)
             ELSE IF outfile # ""
                  \* writeOutfile(output, hash_out): the name output is unbound
                  THEN Result(sc, src,
                              Write(out1, <<Line("hash", "", HashNoDomain(m, t, sc))>>),
                              content, "NameError",
                              <<HashRecord(o, src, sc, HashNoDomain(m, t, sc))>>)
                  ELSE Result(Reset(sc), -1,
                              Write(out1, <<Line("hash", "", HashNoDomain(m, t, sc)),
                                            Blank>>),
                              content, "",
                              <<HashRecord(o, src, sc, HashNoDomain(m, t, sc))>>)
        ELSE IF ~(t.domain.ok /\ t.username.ok /\ t.workstation.ok)
             THEN Result(sc, src, out1, content, "UnicodeDecodeError", <<>>)
             ELSE Result(Reset(sc), -1,
                         Write(out1, <<Line("hash", "", HashWithDomain(m, t, sc)),
                                       Blank>>),
                         IF outfile # ""
                         THEN writeOutfile(content, HashWithDomain(m, t, sc))
                         ELSE content,
                         "", <<HashRecord(o, src, sc, HashWithDomain(m, t, sc))>>)

\* Type 3 branch
Type3(o, m, t, sc, src, out, content) ==
    IF Type3Report(o, m, t, out).error # ""
    THEN Result(sc, src, Type3Report(o, m, t, out).stdout, content,
                Type3Report(o, m, t, out).error, <<>>)
    ELSE Type3Hash(o, m, t, sc, src, Type3Report(o, m, t, out).stdout, content)

\* a Type 2 occurrence not overwriting a pending challenge
LoopBody_KeepFirst(buf, o, m, t, sc, src, out, content) ==
    LET is2  == IsType(buf, o, ntlmssp_type_2) /\ sc = None
        out1 == IF IsType(buf, o, ntlmssp_type_1) THEN Type1(o, out) ELSE out
        sc2  == IF is2 THEN Type2(buf, o, out1).server_challenge ELSE sc
        src2 == IF is2 THEN o ELSE src
        out2 == IF is2 THEN Type2(buf, o, out1).stdout ELSE out1
    IN  IF IsType(buf, o, ntlmssp_type_3)
        THEN Type3(o, m, t, sc2, src2, out2, content)
        ELSE Result(sc2, src2, out2, content, "", <<>>)

\* a Type 1 occurrence dropping the pending challenge
LoopBody_Type1Resets(buf, o, m, t, sc, src, out, content) ==
    LET is1  == IsType(buf, o, ntlmssp_type_1)
        is2  == IsType(buf, o, ntlmssp_type_2)
        out1 == IF is1 THEN Type1(o, out) ELSE out
        sc2  == IF is2 THEN Type2(buf, o, out1).server_challenge
                ELSE IF is1 THEN None ELSE sc
        src2 == IF is2 THEN o ELSE src
        out2 == IF is2 THEN Type2(buf, o, out1).stdout ELSE out1
    IN  IF IsType(buf, o, ntlmssp_type_3)
        THEN Type3(o, m, t, sc2, src2, out2, content)
        ELSE Result(sc2, src2, out2, content, "", <<>>)

\* The body of the while loop for the occurrence at o (o = -1: none found);
\* m and t are the fields of the message at o and their decoded text
LoopBody(buf, o, m, t, sc, src, out, content) ==
    LET is2  == IsType(buf, o, ntlmssp_type_2)
        out1 == IF IsType(buf, o, ntlmssp_type_1) THEN Type1(o, out) ELSE out
        sc2  == IF is2 THEN Type2(buf, o, out1).server_challenge ELSE sc
        src2 == IF is2 THEN o ELSE src
        out2 == IF is2 THEN Type2(buf, o, out1).stdout ELSE out1
    IN  IF IsType(buf, o, ntlmssp_type_3)
        THEN Type3(o, m, t, sc2, src2, out2, content)
        ELSE Result(sc2, src2, out2, content, "", <<>>)

----------------------------------------------------------------------------
(* The program *)

\* CPython 3.11 with its default recursion limit of 1000, main being called
\* from the top level of the script: the frames of 993 nested invocations of
\* searchCaptureFile leave room for the call of open() at line 92, those of
\* 994 do not.
DeepestPass == 993

\* how often the running pass has processed the occurrence at offset; only
\* at offset 0, which the scan never moves past, can this exceed 1
Repeats == Cardinality({i \in 1..Len(occ) : occ[i] = offset})

\* A pass that stays at one offset is followed for MaxOcc iterations, and
\* beyond them for as long as its iterations print nothing; occ keeps the
\* first MaxOcc of the repeated offsets.
Recording == Repeats < MaxOcc

InputPath == "IN"

\* print('\033[0;97m') and the like: a line holding a colour code only
Colour == Line("diag", "colour", <<>>)

banner ==
    [i \in 1..24 |-> Line("diag", "banner", <<i>>)] \o <<Blank, Colour>>

usage == <<Colour, Line("diag", "usage", <<>>), Colour>>

showhelp ==
    usage \o [i \in 1..12 |-> Line("diag", "help", <<i>>)] \o <<Blank>>

\* main leaving through sys.exit: status "" stands for sys.exit()
Exit(a, parsed, lines, status) ==
    [pc |-> "done", error |-> status, stdout |-> lines,
     outfile |-> IF parsed THEN a.outfile ELSE "",
     verbose |-> parsed /\ a.verbose,
     follow  |-> parsed /\ a.follow,
     quiet   |-> parsed /\ a.quiet]

\* main(argv) up to its call of searchCaptureFile.  form "none" is an empty
\* command line, "bad" one getopt rejects, "help" one with -h; otherwise the
\* options are taken from the command line.
MainSteps(a) ==
    IF a.form = "none" THEN Exit(a, FALSE, banner \o usage, "")
    ELSE IF a.form = "bad" THEN Exit(a, FALSE, usage, "SystemExit 2")
    ELSE IF a.form = "help" THEN Exit(a, FALSE, banner \o showhelp, "")
    ELSE IF a.infile = ""
        THEN Exit(a, TRUE, <<Line("diag", "no input file", <<>>)>>, "")
    ELSE IF a.infile # InputPath
        THEN Exit(a, TRUE, <<Line("diag", "input file not found", <<>>)>>, "")
    ELSE [pc |-> "read1", error |-> "",
          stdout |-> (IF a.quiet THEN <<>> ELSE banner)
                        \o <<Line("diag", "searching", <<>>)>>
                        \o (IF a.outfile # ""
                            THEN <<Line("diag", "writing to", <<>>)>> ELSE <<>>)
                        \o <<Colour>>,
          outfile |-> a.outfile,
          \* "Ensure we will be quiet"
          verbose |-> a.verbose /\ ~a.quiet,
          follow  |-> a.follow,
          quiet   |-> a.quiet]

\* the lines main has printed when it calls searchCaptureFile
MainOutput == MainSteps(argv).stdout

\* the program is started on the command line a, the input file holding f;
\* the variables of searchCaptureFile have the values its first call gives
\* them
ProgramStart(f, lay, a) ==
    /\ argv = a
    /\ file = f
    /\ layout = lay
    /\ outfile = ""
    /\ verbose = FALSE
    /\ follow = FALSE
    /\ quiet = FALSE
    /\ pc = "main"
    /\ pass = 1
    /\ start = 0
    /\ offset = 0
    /\ server_challenge = None
    /\ readbuff = <<>>
    /\ last_byte = 0
    /\ stdout = <<>>
    /\ outfile_content = <<>>
    /\ error = ""
    /\ occ = <<>>
    /\ processed = {}
    /\ challenge_src = -1
    /\ hashes = <<>>

\* -i IN with any of -o, -v, -q, and -f or not
Run(o, fl) ==
    [form |-> "options", infile |-> InputPath, outfile |-> o.outfile,
     verbose |-> o.verbose, follow |-> fl, quiet |-> o.quiet]

Options == [outfile : {"", "out.txt"}, verbose : BOOLEAN, quiet : BOOLEAN]

\* command lines on which main does not reach searchCaptureFile
NoRun ==
    {[form |-> f, infile |-> "", outfile |-> "", verbose |-> FALSE,
      follow |-> FALSE, quiet |-> FALSE] : f \in {"none", "bad", "help"}}
    \cup {[form |-> "options", infile |-> i, outfile |-> "", verbose |-> v,
           follow |-> FALSE, quiet |-> q] :
              i \in {"", "missing"}, v \in BOOLEAN, q \in BOOLEAN}

NoLayout == [prefix |-> 0, names |-> <<>>, cut |-> 0, appended |-> 0]

Init ==
    \/ \E p \in Prefixes, names \in NameSeqs(MaxLead), o \in Options :
         \E cut \in CutsFor(names) :
           ProgramStart(BuildFile(p, names, cut),
                        [prefix |-> p, names |-> names, cut |-> cut,
                         appended |-> 0],
                        Run(o, FALSE))
    \/ \E a \in NoRun : ProgramStart(<<>>, NoLayout, a)

\* main, lines 336-408
main ==
    /\ pc = "main"
    /\ \E r \in {MainSteps(argv)} :
          /\ pc' = r.pc
          /\ error' = r.error
          /\ stdout' = Write(stdout, r.stdout)
          /\ outfile' = r.outfile
          /\ verbose' = r.verbose
          /\ follow' = r.follow
          /\ quiet' = r.quiet
    /\ UNCHANGED <<argv, file, pass, start, offset, server_challenge, readbuff,
                   last_byte, outfile_content, occ, processed, challenge_src,
                   hashes, layout>>

\* readbuff = fp.read(); last_byte = len(readbuff)
Read1 ==
    /\ pc = "read1"
    /\ pass <= DeepestPass
    /\ readbuff' = file
    /\ last_byte' = Len(file)
    /\ pc' = "read2"
    /\ UNCHANGED <<argv, file, outfile, verbose, follow, quiet, pass, start, offset,
                   server_challenge, stdout, outfile_content, error, occ,
                   processed, challenge_src, hashes, layout>>

\* fp.seek(0,0); readbuff = fp.read()
Read2 ==
    /\ pc = "read2"
    /\ readbuff' = file
    /\ pc' = "scan"
    /\ UNCHANGED <<argv, file, outfile, verbose, follow, quiet, pass, start, offset,
                   server_challenge, last_byte, stdout, outfile_content, error,
                   occ, processed, challenge_src, hashes, layout>>

\* "while offset != -1": the search for the next occurrence
FindNext ==
    /\ pc = "scan"
    /\ offset # -1
    /\ offset' = NextOccurrence(readbuff, offset)
    /\ pc' = "classify"
    /\ UNCHANGED <<argv, file, outfile, verbose, follow, quiet, pass, start,
                   server_challenge, readbuff, last_byte, stdout,
                   outfile_content, error, occ, processed, challenge_src,
                   hashes, layout>>

\* the fields the Type 3 branch reads, which no other branch reads
Fields(buf, o) ==
    IF IsType(buf, o, ntlmssp_type_3) THEN Type3Fields(buf, o)
    ELSE Type3Fields(<<>>, 0)

\* the rest of the loop body: the type checks and the three branches
Classify ==
    /\ pc = "classify"
    /\ \E m \in {Fields(readbuff, offset)} :
       \E t \in {Type3Text(m)} :
       \E r \in {LoopBody(readbuff, offset, m, t, server_challenge,
                          challenge_src, stdout, outfile_content)} :
           /\ Recording \/ (r.stdout = stdout /\ r.hashes = <<>>)
           /\ server_challenge' = r.server_challenge
           /\ challenge_src' = r.challenge_src
           /\ stdout' = r.stdout
           /\ outfile_content' = r.outfile_content
           /\ error' = r.error
           /\ hashes' = hashes \o r.hashes
           /\ pc' = IF r.error # "" THEN "crashed" ELSE "scan"
    /\ occ' = IF offset # -1 /\ Recording THEN Append(occ, offset) ELSE occ
    /\ processed' = IF offset # -1 THEN processed \cup {<<pass, offset>>}
                    ELSE processed
    /\ UNCHANGED <<argv, file, outfile, verbose, follow, quiet, pass, start,
                   offset, readbuff, last_byte, layout>>

\* the loop ends and, follow being off, searchCaptureFile returns
Return ==
    /\ pc = "scan"
    /\ offset = -1
    /\ ~follow
    /\ pc' = "done"
    /\ UNCHANGED <<argv, file, outfile, verbose, follow, quiet, pass, start, offset,
                   server_challenge, readbuff, last_byte, stdout,
                   outfile_content, error, occ, processed, challenge_src,
                   hashes, layout>>

Next == main \/ Read1 \/ Read2 \/ FindNext \/ Classify \/ Return

Spec == Init /\ [][Next]_vars

\* short input files: at most two messages out of four kinds, never cut; the
\* command line has -q, so that a pass prints nothing but records and the
\* states of a pass that does not end recur
InitShort ==
    \E p \in Prefixes, o \in {x \in Options : x.quiet},
       names \in UNION {[1..k -> {"T1", "T2A", "T3", "T3nodom"}] : k \in 0..2} :
        ProgramStart(BuildFile(p, names, 0),
                     [prefix |-> p, names |-> names, cut |-> 0, appended |-> 0],
                     Run(o, FALSE))

\* the interpreter keeps executing the program until it ends
FairSpec == InitShort /\ [][Next]_vars /\ WF_vars(Next)

----------------------------------------------------------------------------
(* Follow mode: the scan is re-invoked on the growing input file *)

\* what the writer of the capture appends in one write
Chunk(name) ==
    CASE name = "T2A"    -> Type2Msg(ChallengeA)
      [] name = "T3"     -> Piece("T3").bytes
      [] name = "PadT2A" -> Fill(204, 9) \o Type2Msg(ChallengeA)
      [] name = "PadT3"  -> Fill(204, 9) \o Piece("T3").bytes

ChunkNames == {"T2A", "T3", "PadT2A", "PadT3"}

InitFollow ==
    \E names \in {<<>>, <<"Pad">>, <<"Pad", "T2A">>}, q \in BOOLEAN :
        ProgramStart(BuildFile(0, names, 0),
                     [prefix |-> 0, names |-> names, cut |-> 0, appended |-> 0],
                     Run([outfile |-> "", verbose |-> FALSE, quiet |-> q], TRUE))

\* another process appends to the capture while it is being followed
WriterAppend ==
    /\ layout.appended < MaxAppends
    /\ pc \in {"read1", "read2", "scan", "classify", "sleep"}
    /\ \E c \in ChunkNames :
          /\ file' = file \o Chunk(c)
          /\ layout' = [layout EXCEPT !.appended = @ + 1]
    /\ UNCHANGED <<argv, outfile, verbose, follow, quiet, pc, pass, start, offset,
                   server_challenge, readbuff, last_byte, stdout,
                   outfile_content, error, occ, processed, challenge_src,
                   hashes>>

\* the loop ends and, follow being on, the program sleeps
FollowSleep ==
    /\ pc = "scan"
    /\ offset = -1
    /\ follow
    /\ pc' = "sleep"
    /\ UNCHANGED <<argv, file, outfile, verbose, follow, quiet, pass, start, offset,
                   server_challenge, readbuff, last_byte, stdout,
                   outfile_content, error, occ, processed, challenge_src,
                   hashes, layout>>

\* searchCaptureFile(infile, outfile, verbose, follow, quiet, last_byte),
\* followed as long as fewer than n passes were started
FollowCallWithin(n) ==
    /\ pc = "sleep"
    /\ pass < n
    /\ pass' = pass + 1
    /\ start' = last_byte
    /\ offset' = last_byte
    /\ server_challenge' = None
    /\ challenge_src' = -1
    /\ occ' = <<>>
    /\ pc' = "read1"
    /\ UNCHANGED <<argv, file, outfile, verbose, follow, quiet, readbuff, last_byte,
                   stdout, outfile_content, error, processed, hashes, layout>>

FollowCall == FollowCallWithin(MaxPass)

NextFollow ==
    main \/ Read1 \/ Read2 \/ FindNext \/ Classify \/ FollowSleep \/ FollowCall
        \/ WriterAppend

SpecFollow == InitFollow /\ [][NextFollow]_vars

\* Ctrl-C: KeyboardInterrupt is raised at the statement being executed.  The
\* try statement of lines 260-267 encloses the sleep of the running pass and
\* the whole of every later pass; nothing encloses main and the first pass,
\* which main calls at line 408.
Handled == pass > 1 \/ pc = "sleep"

\* an interrupted writeOutfile has written the record or has not
WrittenSoFar(rec, before, after) ==
    IF rec = <<>> THEN {before} ELSE {before, after}

\* The interrupt arrives between two statements of the step the program is
\* at: main or a loop iteration has then printed the first lines of what it
\* prints, and a record is printed or not yet.
Interrupt ==
    /\ pc \in {"main", "read1", "read2", "scan", "classify", "sleep"}
    /\ \E m \in {Fields(readbuff, offset)} :
       \E t \in {Type3Text(m)} :
       \E r \in {IF pc = "main"
                  THEN Result(None, -1, MainOutput, <<>>, "", <<>>)
                  ELSE IF pc = "classify"
                  THEN LoopBody(readbuff, offset, m, t, server_challenge,
                                challenge_src, stdout, outfile_content)
                  ELSE Result(None, -1, stdout, outfile_content, "", <<>>)} :
       \E k \in Len(stdout)..Len(r.stdout) :
       \E rec \in {IF \E i \in (Len(stdout) + 1)..k : r.stdout[i].kind = "hash"
                    THEN r.hashes ELSE <<>>} :
       \E content \in WrittenSoFar(rec, outfile_content, r.outfile_content) :
           /\ hashes' = hashes \o rec
           /\ outfile_content' = content
           /\ IF Handled
              THEN /\ stdout' = Write(SubSeq(r.stdout, 1, k),
                                      <<Line("diag", "bye", <<>>)>>)
                   /\ error' = error
                   /\ pc' = "done"
              ELSE /\ stdout' = SubSeq(r.stdout, 1, k)
                   /\ error' = "KeyboardInterrupt"
                   /\ pc' = "crashed"
    /\ UNCHANGED <<argv, file, outfile, verbose, follow, quiet, pass, start,
                   offset, server_challenge, readbuff, last_byte, occ,
                   processed, challenge_src, layout>>

NextInterrupt ==
    main \/ Read1 \/ Read2 \/ FindNext \/ Classify \/ FollowSleep \/ FollowCall
        \/ WriterAppend \/ Interrupt

SpecInterrupt == InitFollow /\ [][NextInterrupt]_vars

\* line 263 as long as the interpreter allows the nesting
FollowCallDeep == FollowCallWithin(DeepestPass + 1)

\* open() at line 92 raises RecursionError, which no except clause catches
OpenFails ==
    /\ pc = "read1"
    /\ pass > DeepestPass
    /\ error' = "RecursionError"
    /\ pc' = "crashed"
    /\ UNCHANGED <<argv, file, outfile, verbose, follow, quiet, pass, start, offset,
                   server_challenge, readbuff, last_byte, stdout,
                   outfile_content, occ, processed, challenge_src, hashes,
                   layout>>

\* follow mode on a file nobody appends to, with no interrupt
NextUninterrupted ==
    main \/ Read1 \/ Read2 \/ FindNext \/ Classify \/ FollowSleep \/ FollowCallDeep
        \/ OpenFails

\* the interpreter keeps executing the program, and the sleep ends
FairFollow == InitFollow /\ [][NextUninterrupted]_vars /\ WF_vars(NextUninterrupted)

\* the status the process exits with
ExitStatus ==
    IF error = "" THEN 0
    ELSE IF error = "KeyboardInterrupt" THEN 130
    ELSE IF error = "SystemExit 2" THEN 2
    ELSE 1

----------------------------------------------------------------------------
(* Vocabulary of the properties *)

\* the pieces of text between occurrences of the code point c
RECURSIVE Split(_, _)
Split(text, c) ==
    LET at == {i \in 1..Len(text) : text[i] = c}
    IN  IF at = {} THEN <<text>>
        ELSE <<SubSeq(text, 1, Min(at) - 1)>>
                 \o Split(SubSeq(text, Min(at) + 1, Len(text)), c)

\* the record is ...:SERVER_CHALLENGE:NT_PROOF_STR:NTLMV2_RESPONSE
ChallengeSegment(line) ==
    LET segs == Split(line, Colon) IN segs[Len(segs) - 2]

\* the part of a record before its first colon: [DOMAIN\]USERNAME
NamePart(line) == Split(line, Colon)[1]

HasBackslash(text) == \E i \in 1..Len(text) : text[i] = Backslash

\* the hash records among the lines of standard output
HashLines(out) ==
    LET hs == SelectSeq(out, LAMBDA l : l.kind = "hash")
    IN  [i \in 1..Len(hs) |-> hs[i].text]

\* the lines of a text file whose lines all end with a newline
FileLines(content) ==
    LET parts == Split(content, 10)
    IN  SubSeq(parts, 1, Len(parts) - 1)

SigPositions(buf) ==
    {p \in 0..(Len(buf) - Len(ntlmssp_sig)) :
        SubSeq(buf, p + 1, p + Len(ntlmssp_sig)) = ntlmssp_sig}

\* the NT proof and the response remainder of a record
ProofSegment(line) ==
    LET segs == Split(line, Colon) IN segs[Len(segs) - 1]

ResponseSegment(line) ==
    LET segs == Split(line, Colon) IN segs[Len(segs)]

\* the message type the four bytes after the signature at o give: 1, 2, 3,
\* or 0 when they give none of these or are not all there
KindAt(buf, o) ==
    LET ty == Slice(buf, o + Len(ntlmssp_sig), o + Len(ntlmssp_sig) + 4)
    IN  IF ty = <<1, 0, 0, 0>> THEN 1
        ELSE IF ty = <<2, 0, 0, 0>> THEN 2
        ELSE IF ty = <<3, 0, 0, 0>> THEN 3
        ELSE 0

\* the loop body is processing the occurrence at offset, of kind k
Processing(k) ==
    pc = "classify" /\ offset # -1 /\ KindAt(readbuff, offset) = k

\* the step added a hash record
Emitted == hashes' # hashes

\* the offsets among os of the Type 2 occurrences before position p
Type2Before(buf, os, p) ==
    {os[i] : i \in {j \in 1..Len(os) : os[j] < p /\ KindAt(buf, os[j]) = 2}}

Max(S) == CHOOSE x \in S : \A y \in S : x >= y

Ended == pc \in {"done", "crashed"}

\* the running pass has left its scan loop
Scanned == pc \in {"done", "sleep"} \/ (pc = "scan" /\ offset = -1)

\* offset of the i-th piece of the input file
PieceAt(i) == PieceStart(layout.prefix, layout.names, i)

\* message-relative end of the descriptor at d and of the bytes it names
Truncated(buf, o) ==
    \E d \in {20, 28, 36, 44} :
        \/ o + d + 8 > Len(buf)
        \/ o + Field(buf, o, d).offset + Field(buf, o, d).length > Len(buf)

----------------------------------------------------------------------------
(* C1..C10 *)

\* the input is a Type 2 message followed by a complete Type 3 message with a
\* non-empty NTLM response
PairInput ==
    /\ Len(layout.names) = 2
    /\ layout.names[1] \in {"T2A", "T2B"}
    /\ layout.names[2] \in {"T3", "T3nodom"}
    /\ layout.cut = 0

\* C1: for a Type 2 message followed by a Type 3 message with a non-empty
\* response, the Type 2 at any offset, the pass ends having printed exactly
\* one hash record, whose challenge segment is the hex encoding of the 8 bytes
\* at the Type 2 message's offset + 24.
C1_PairYieldsOneRecord ==
    PairInput =>
        <>(/\ Ended
           /\ Len(HashLines(stdout)) = 1
           /\ ChallengeSegment(HashLines(stdout)[1])
                 = Hex(SubSeq(file, PieceAt(1) + 25, PieceAt(1) + 32)))

\* C2: with follow off, a pass started at position 0 terminates for every
\* buffer, wherever its signatures are.
C2_Terminates == <>Ended

\* C3: when an output file is configured, every hash record written to
\* standard output is also a line of the output file, and the scan goes on.
C3_RecordsReachOutfile ==
    outfile # "" =>
        /\ FileLines(outfile_content) = HashLines(stdout)
        /\ error # "NameError"

\* C4: a Type 3 occurrence of which a descriptor, or the bytes a descriptor
\* names, extend past the end of the buffer yields no hash record.
C4_TruncatedYieldsNoRecord ==
    \A n \in 1..Len(hashes) : ~Truncated(readbuff, hashes[n].t3)

\* C5: whatever bytes the domain, username and workstation ranges hold,
\* decoding them never aborts the scan.
C5_DecodingNeverAborts == error # "UnicodeDecodeError"

\* C6: a hash record is printed for a Type 3 occurrence only if its NTLM
\* response length is not zero and, earlier in the same pass, a Type 2
\* occurrence was processed with no Type 3 occurrence between the two.
C6_RecordNeedsChallengeAndResponse ==
    \A n \in 1..Len(hashes) :
        LET t3 == hashes[n].t3
        IN  /\ IsType(readbuff, t3, ntlmssp_type_3)
            /\ decode_int(Slice(readbuff, t3 + 20, t3 + 22)) # 0
            /\ \E i \in 1..Len(occ) :
                  /\ occ[i] < t3
                  /\ IsType(readbuff, occ[i], ntlmssp_type_2)
                  /\ \A k \in 1..Len(occ) :
                        occ[i] < occ[k] /\ occ[k] < t3
                            => ~IsType(readbuff, occ[k], ntlmssp_type_3)

\* a pass ended with one record although a later Type 3 occurrence with a
\* non-empty response was processed, and also a NULL-session Type 3 occurrence
\* was processed right after a Type 2 occurrence
C6_Witness ==
    /\ pc = "done"
    /\ \/ /\ Len(hashes) = 1
          /\ \E j \in 1..Len(occ) :
                /\ occ[j] > hashes[1].t3
                /\ IsType(readbuff, occ[j], ntlmssp_type_3)
                /\ decode_int(Slice(readbuff, occ[j] + 20, occ[j] + 22)) # 0
       \/ /\ hashes = <<>>
          /\ \E j \in 2..Len(occ) :
                /\ IsType(readbuff, occ[j - 1], ntlmssp_type_2)
                /\ IsType(readbuff, occ[j], ntlmssp_type_3)
                /\ decode_int(Slice(readbuff, occ[j] + 20, occ[j] + 22)) = 0

\* C7: when a pass has left its scan loop, it has processed every position
\* at or after its starting position where the signature occurs.
C7_EverySignatureVisited ==
    Scanned =>
        \A p \in SigPositions(readbuff) :
            p >= start => <<pass, p>> \in processed

\* C8: the offsets processed by the iterations of one pass strictly increase.
C8_OffsetsIncrease ==
    \A i \in 1..Len(occ) : \A j \in 1..Len(occ) : i < j => occ[i] < occ[j]

\* C9 as stated: a record has the domain segment and its backslash exactly
\* when the decoded domain text is not empty.
C9_BackslashIffDomainText ==
    \A n \in 1..Len(hashes) :
        LET dom == decode_string(Field(readbuff, hashes[n].t3, 28).bytes).text
        IN  HasBackslash(NamePart(hashes[n].line)) <=> dom # <<>>

\* C9 amended: a record has the domain segment and its backslash exactly when
\* the length field of the domain descriptor at +28 is not zero; the segment
\* is then the decoded domain text, which may be empty.
C9_BackslashIffDomainLength ==
    \A n \in 1..Len(hashes) :
        LET t3   == hashes[n].t3
            dlen == decode_int(Slice(readbuff, t3 + 28, t3 + 30))
            dom  == decode_string(Field(readbuff, t3, 28).bytes).text
            user == decode_string(Field(readbuff, t3, 36).bytes).text
        IN  /\ HasBackslash(NamePart(hashes[n].line)) <=> dlen # 0
            /\ dlen # 0 => NamePart(hashes[n].line) = dom \o <<Backslash>> \o user
            /\ dlen = 0 => NamePart(hashes[n].line) = user

\* a record was printed with a backslash after an empty domain text, the
\* domain length field being 2
C9_Witness ==
    \E n \in 1..Len(hashes) :
        /\ decode_int(Slice(readbuff, hashes[n].t3 + 28, hashes[n].t3 + 30)) = 2
        /\ decode_string(Field(readbuff, hashes[n].t3, 28).bytes).text = <<>>
        /\ hashes[n].line[1] = Backslash

\* C10: every pass starts with no pending challenge, and no record pairs a
\* Type 2 occurrence processed by an earlier pass with a Type 3 occurrence
\* first processed by a later pass.
C10_NoPairAcrossPasses ==
    /\ pc = "read1" => server_challenge = None
    /\ \A n \in 1..Len(hashes) :
          LET h == hashes[n]
          IN  ~(/\ \E i \in 1..(h.pass - 1) : <<i, h.t2>> \in processed
                /\ \A j \in 1..(h.pass - 1) : <<j, h.t3>> \notin processed)

----------------------------------------------------------------------------
(* C11..C19 *)

\* an interrupt has arrived
Interrupted ==
    \/ error = "KeyboardInterrupt"
    \/ \E i \in 1..Len(stdout) : stdout[i].id = "bye"

\* C11: in follow mode an interrupt arriving at any point, be it during the
\* scan of the first pass, during the scan of a later pass or during the sleep
\* between passes, is handled: the program ends with exit status 0 and not
\* with an unhandled error.
C11_InterruptHandled ==
    Interrupted => (pc = "done" /\ error = "" /\ ExitStatus = 0)

\* C12: with the quiet flag set, every line a pass writes to standard output
\* is a hash record: no diagnostic line and no blank line, also when a
\* NULL-session Type 3 is processed while a challenge is pending.
C12_QuietOnlyHashRecords ==
    quiet =>
        \A i \in (Len(MainOutput) + 1)..Len(stdout) : stdout[i].kind = "hash"

\* C13: once a Type 3 occurrence has been processed to completion the pending
\* challenge is absent; with no challenge pending a Type 3 occurrence emits
\* nothing, and no two records of a pass use the same Type 2 occurrence.
C13_Type3ClearsChallenge ==
    [][(Processing(3) /\ pc' = "scan") =>
          /\ server_challenge' = None
          /\ server_challenge = None => ~Emitted
          /\ Emitted =>
                \A n \in 1..Len(hashes) :
                    hashes[n].pass = pass =>
                        hashes[n].t2 # hashes'[Len(hashes')].t2]_vars

\* a pass ended without a record although it processed, in this order, a
\* Type 2 occurrence, a NULL-session Type 3 occurrence and a Type 3
\* occurrence with a non-empty response
C13_Witness ==
    /\ pc = "done"
    /\ hashes = <<>>
    /\ \E i, j, k \in 1..Len(occ) :
          /\ i < j /\ j < k
          /\ KindAt(readbuff, occ[i]) = 2
          /\ KindAt(readbuff, occ[j]) = 3
          /\ decode_int(Slice(readbuff, occ[j] + 20, occ[j] + 22)) = 0
          /\ KindAt(readbuff, occ[k]) = 3
          /\ decode_int(Slice(readbuff, occ[k] + 20, occ[k] + 22)) # 0

\* C14: processing a Type 2 occurrence makes the bytes at its offset + 24 to
\* + 32 the pending challenge whatever was pending, and the challenge of an
\* emitted record is that of the last Type 2 occurrence processed before the
\* record's Type 3 occurrence.
C14_LastType2Wins ==
    [][/\ (Processing(2) /\ pc' = "scan") =>
             server_challenge' = Slice(readbuff, offset + 24, offset + 32)
       /\ (Processing(3) /\ Emitted) =>
             /\ Type2Before(readbuff, occ, offset) # {}
             /\ hashes'[Len(hashes')].challenge =
                   Slice(readbuff,
                         Max(Type2Before(readbuff, occ, offset)) + 24,
                         Max(Type2Before(readbuff, occ, offset)) + 32)]_vars

\* a pass ended with one record, carrying the challenge of the second of two
\* Type 2 occurrences with different challenges
C14_Witness ==
    /\ pc = "done"
    /\ Len(hashes) = 1
    /\ \E a, b \in Type2Before(readbuff, occ, hashes[1].t3) :
          /\ a < b
          /\ Slice(readbuff, a + 24, a + 32) # Slice(readbuff, b + 24, b + 32)
          /\ hashes[1].challenge = Slice(readbuff, b + 24, b + 32)
          /\ ChallengeSegment(hashes[1].line) = Hex(Slice(readbuff, b + 24, b + 32))

\* C15: in every record of a Type 3 message that lies whole inside the
\* buffer, the NT proof is 16 bytes and the NT proof followed by the response
\* remainder is the byte range the NTLM-response descriptor at +20 names, for
\* every length that is not zero.
C15_ProofAndRemainderAreTheRange ==
    \A n \in 1..Len(hashes) :
        LET t3   == hashes[n].t3
            ntlm == Field(readbuff, t3, 20)
        IN  ~Truncated(readbuff, t3) =>
                /\ Len(ProofSegment(hashes[n].line)) = 2 * 16
                /\ ProofSegment(hashes[n].line) \o ResponseSegment(hashes[n].line)
                      = Hex(SubSeq(readbuff, t3 + ntlm.offset + 1,
                                   t3 + ntlm.offset + ntlm.length))

\* C18: the challenge segment of every record encodes 8 bytes, which are the
\* bytes of the buffer at + 24 to + 32 of the Type 2 occurrence that set the
\* challenge; they lie inside the buffer, and the record's Type 3 occurrence
\* starts at least 12 bytes after that Type 2 occurrence.
C18_ChallengeIsEightBytes ==
    \A n \in 1..Len(hashes) :
        LET h == hashes[n]
        IN  /\ Len(ChallengeSegment(h.line)) = 2 * 8
            /\ h.t2 + 32 <= Len(readbuff)
            /\ ChallengeSegment(h.line)
                  = Hex(SubSeq(readbuff, h.t2 + 25, h.t2 + 32))
            /\ h.t3 >= h.t2 + 12

\* a record was printed for a Type 3 occurrence that starts 12 bytes after
\* the Type 2 occurrence that set the challenge: the 8 bytes are bytes of the
\* Type 3 message
C18_Witness ==
    \E n \in 1..Len(hashes) :
        /\ hashes[n].t3 = hashes[n].t2 + 12
        /\ KindAt(readbuff, hashes[n].t2) = 2
        /\ Len(hashes[n].challenge) = 8
        /\ ChallengeSegment(hashes[n].line) = Hex(hashes[n].challenge)

\* C19: processing an occurrence that is neither Type 2 nor Type 3 leaves the
\* pending challenge as it is and emits no record; a record's challenge is
\* that of the Type 2 occurrence that set it, whatever Type 1 or unrecognised
\* occurrences were processed in between.
C19_OtherTypesChangeNothing ==
    [][/\ (Processing(1) \/ Processing(0)) =>
             /\ server_challenge' = server_challenge
             /\ ~Emitted
             /\ pc' = "scan"
       /\ (Processing(3) /\ Emitted) =>
             \E i \in 1..Len(occ) :
                /\ KindAt(readbuff, occ[i]) = 2
                /\ occ[i] < offset
                /\ hashes'[Len(hashes')].challenge
                      = Slice(readbuff, occ[i] + 24, occ[i] + 32)
                /\ \A k \in 1..Len(occ) :
                      occ[k] > occ[i] => KindAt(readbuff, occ[k]) \in {0, 1}]_vars

\* a pass ended with one record, carrying the challenge of a Type 2
\* occurrence, after it processed a Type 1 or unrecognised occurrence between
\* that Type 2 occurrence and the record's Type 3 occurrence
C19_Witness ==
    /\ pc = "done"
    /\ Len(hashes) = 1
    /\ hashes[1].challenge = Slice(readbuff, hashes[1].t2 + 24, hashes[1].t2 + 32)
    /\ \E k \in 1..Len(occ) :
          /\ hashes[1].t2 < occ[k] /\ occ[k] < hashes[1].t3
          /\ KindAt(readbuff, occ[k]) \in {0, 1}

\* C16: in follow mode, with a writer appending at any moment, every
\* signature occurrence of the file is processed by at most one pass, and no
\* two records are printed for the same Type 2 and Type 3 occurrences.
C16_ProcessedByOnePass ==
    /\ \A x \in processed : \A y \in processed : x[2] = y[2] => x[1] = y[1]
    /\ \A n \in 1..Len(hashes) : \A k \in 1..Len(hashes) :
          (hashes[n].t2 = hashes[k].t2 /\ hashes[n].t3 = hashes[k].t3) => n = k

\* C17: in follow mode without an interrupt, whenever a pass has completed
\* and the program sleeps, a further scan pass is eventually started, however
\* many passes there have been.
C17_NextPassAlwaysStarts == (pc = "sleep") ~> (pc = "scan")

====
